---- MODULE Spec2Model ----
(***************************************************************************)
(* Model of src/main.py: the batch pipeline run_pipeline() and the retry   *)
(* loop of VideoGenerator.generate().                                      *)
(*                                                                         *)
(* External collaborators (the Claude API, the Hugging Face endpoint, the  *)
(* YouTube uploader, the Google Sheets ledger, the file system) are        *)
(* modelled by the outcomes the code distinguishes: a call returns or      *)
(* raises, an HTTP response is 200, 503 or something else.                 *)
(***************************************************************************)
EXTENDS Integers, Sequences, FiniteSets

\* ------------------------------------------------------------------ bounds
\* Largest batch the idea generator returns in the model.
MaxIdeas == 2
\* Largest max_retries argument tried when generate() is called directly.
MaxAttempts == 5

\* ------------------------------------------------------- program constants
\* Config.MAX_RETRIES
MAX_RETRIES == 10
\* Config.RETRY_WAIT (seconds)
RETRY_WAIT == 20

\* ---------------------------------------------------------------- ideas
\* An idea is a JSON object; the model keeps the set of keys it has.
Fields ==
  {"title", "description", "hook", "target_audience", "virality_score", "keywords"}

\* A complete idea, and the ideas that lack exactly one key.
IdeaShapes == {Fields} \cup {Fields \ {f} : f \in Fields}

\* The batches generate_ideas can return (json.loads of the model's answer).
Batches == UNION {[1..n -> IdeaShapes] : n \in 0..MaxIdeas}

\* idea[k] raises KeyError when the key is absent.
HasAll(idea, keys) == keys \subseteq idea

\* Keys read by the print of the idea-logging loop.
ListingKeys == {"title"}
\* Keys read by log_idea inside its own try block.
LogIdeaKeys ==
  {"title", "description", "hook", "target_audience", "virality_score", "keywords"}
\* Keys read by the prints at the top of the processing loop, before the try.
HeaderKeys == {"title", "hook", "target_audience", "virality_score"}
\* Keys read by generate_video_prompt.
PromptKeys == {"title", "description", "hook", "target_audience"}
\* Keys read by YouTubeUploader.upload.
UploadKeys == {"title", "keywords", "description", "hook"}
\* Keys read by log_video inside its own try block.
LogVideoKeys == {"title", "virality_score", "keywords"}

\* ------------------------------------------------------------ state
VARIABLES
  pc,           \* position of the run (run_pipeline, or generate called directly)
  ideas,        \* the batch returned by generate_ideas
  i,            \* index of the idea the current loop is at
  stats,        \* stats["total"], stats["successful"], stats["failed"]
  stage,        \* per item: the stage the item is in
  files,        \* video files on disk, named by the item that produced them
  removals,     \* per item: number of os.remove calls that removed its file
  uploads,      \* per item: number of YouTubeUploader.upload calls
  ledgerCalls,  \* per sheet: sequence of items log_idea/log_video/log_error was called for
  ledgerRows,   \* per sheet: items whose row was appended
  max_retries,  \* generate's max_retries argument
  retry_count,  \* generate's retry_count
  calls,        \* requests.post calls made by the current generate
  sleeps,       \* time.sleep calls made by the current generate
  lastWait,     \* duration of the latest time.sleep of the current generate
  lastOutcome,  \* outcome of the latest requests.post of the current generate
  n503,         \* 503 answers received by the current generate
  genResult,    \* what generate returned: "path", "None", or "none" while running
  exc,          \* message of the exception the item's except clause is handling
  errorLogged,  \* per item: the error text passed to sheets.log_error
  cancel        \* the cancellation signal of the environment

pipeVars ==
  <<ideas, i, stats, stage, removals, uploads, ledgerCalls, ledgerRows, exc, errorLogged>>
genVars == <<max_retries, retry_count, calls, sleeps, lastWait, lastOutcome, n503, genResult>>
vars == <<pc, files, pipeVars, genVars, cancel>>

Items == 1..Len(ideas)

Sheets == {"Ideas_Log", "Videos_Log", "Errors_Log"}

\* ---------------------------------------------------- VideoGenerator.generate
\* What one requests.post (and the handling of a 200) can come to:
\*   ready    - status 200, the file is written
\*   notready - status 503
\*   failed   - any other status
\*   raised   - the call raised (timeout=300 expired, connection error, ...)
Outcomes == {"ready", "notready", "failed", "raised"}

\* while retry_count < max_retries
\* (faulty variant: one iteration too many)
ContinueLoopOffByOne(n, m) == n <= m
ContinueLoop(n, m) == n < m

\* retry_count += 1 on every outcome but 200
\* (faulty variant: only a 503 is counted)
CountAfterOnly503(outcome, n) == IF outcome = "notready" THEN n + 1 ELSE n
CountAfter(outcome, n) == IF outcome = "ready" THEN n ELSE n + 1

\* time.sleep argument; n is retry_count after the increment
\* (faulty variants: the same wait for every outcome)
WaitAfterFlat(outcome, n) == RETRY_WAIT
WaitAfterAllLinear(outcome, n) == RETRY_WAIT * n
WaitAfter(outcome, n) == IF outcome = "notready" THEN RETRY_WAIT * n ELSE RETRY_WAIT

\* What generate prints about an attempt that did not return the video:
\* "Model loading...", "API Error <status>: ...", "Request failed: ...".
RemoteReason(outcome) ==
  CASE outcome = "notready" -> "Model loading"
    [] outcome = "failed" -> "API Error"
    [] outcome = "raised" -> "Request failed"
    [] OTHER -> "none"

\* Entry of generate: retry_count = 0.
EnterGenerate(m) ==
  /\ max_retries' = m
  /\ retry_count' = 0
  /\ calls' = 0
  /\ sleeps' = 0
  /\ lastWait' = 0
  /\ lastOutcome' = "none"
  /\ n503' = 0
  /\ genResult' = "none"

\* generate has returned: its locals are gone.
LeaveGenerate ==
  /\ max_retries' = MAX_RETRIES
  /\ retry_count' = 0
  /\ calls' = 0
  /\ sleeps' = 0
  /\ lastWait' = 0
  /\ lastOutcome' = "none"
  /\ n503' = 0
  /\ genResult' = "none"

\* One iteration of the while loop: the request, then either the return of the
\* path or the increment and the sleep.
GenerateAttempt ==
  /\ UNCHANGED cancel
  /\ pc = "generate"
  /\ ContinueLoop(retry_count, max_retries)
  /\ \E outcome \in Outcomes :
       /\ calls' = calls + 1
       /\ lastOutcome' = outcome
       /\ retry_count' = CountAfter(outcome, retry_count)
       /\ n503' = IF outcome = "notready" THEN n503 + 1 ELSE n503
       /\ IF outcome = "ready"
            THEN /\ files' = files \cup {i}
                 /\ genResult' = "path"
                 /\ pc' = "gen_done"
                 /\ UNCHANGED <<sleeps, lastWait>>
            ELSE /\ sleeps' = sleeps + 1
                 /\ lastWait' = WaitAfter(outcome, retry_count')
                 /\ UNCHANGED <<files, genResult, pc>>
  /\ UNCHANGED <<max_retries, pipeVars>>

\* The loop condition fails: "Failed after N retries", return None.
GenerateExhausted ==
  /\ UNCHANGED cancel
  /\ pc = "generate"
  /\ ~ContinueLoop(retry_count, max_retries)
  /\ genResult' = "None"
  /\ pc' = "gen_done"
  /\ UNCHANGED <<files, pipeVars, max_retries, retry_count, calls, sleeps, lastWait,
                 lastOutcome, n503>>

\* ------------------------------------------------------------ ledger
\* A SheetsLogger.log_* call for an item: the call is recorded; the row is
\* appended unless the body of the call's try block raised (ok = FALSE), which
\* the call's own except clause swallows.
LedgerCall(sheet, item, ok) ==
  /\ ledgerCalls' = [ledgerCalls EXCEPT ![sheet] = Append(@, item)]
  /\ ledgerRows' = IF ok THEN [ledgerRows EXCEPT ![sheet] = @ \cup {item}] ELSE ledgerRows

\* ------------------------------------------------------------ run_pipeline
\* enumerate(ideas, 1)
\* (faulty variant: the first idea is skipped)
StartsAtSecond == 1 + 1
LoopStart == 1

\* the for loop is over when the ideas are used up
\* (faulty variant: the last idea is skipped)
LoopDoneOffByOne(k, n) == k >= n
LoopDone(k, n) == k > n

\* the for loop's step
NextItem(k) == k + 1

\* stats["total"] += 1
\* (faulty variant: the increment is missing)
CountTotalForgotten(s) == s
CountTotal(s) == [s EXCEPT !.total = @ + 1]

\* stats["successful"] += 1
CountSuccessful(s) == [s EXCEPT !.successful = @ + 1]

\* stats["failed"] += 1
\* (faulty variant: the increment is missing)
CountFailedForgotten(s) == s
CountFailed(s) == [s EXCEPT !.failed = @ + 1]

\* where the per-item except clause leaves the loop: continue
\* (faulty variant: break)
AfterFailureBreaks == "summary"
AfterFailure == "loop"

\* log_video's own except clause swallows what its try block raised: the run
\* goes on to the cleanup whether the row was appended or not.
\* (faulty variant: the exception escapes to the item's except clause)
AfterLogVideoEscalates(rowOk) == IF rowOk THEN "cleanup" ELSE "except"
AfterLogVideo(rowOk) == "cleanup"

\* if not video_path
\* (faulty variant: the result of generate is not tested)
HasArtifactUnchecked(result) == TRUE
HasArtifact(result) == result = "path"

\* raise Exception("Video generation returned None"): the message is the same
\* whatever the last remote outcome was.
GenerationFailedMessage(outcome) == "Video generation returned None"

\* No cancellation has been signalled.
NoCancel == [raised |-> FALSE, at |-> "none", item |-> 0, calls |-> 0]

\* except Exception as e: print("Pipeline failed"); raise
\* (faulty variant: the exception is swallowed and the run goes on)
IdeasFailureSwallowed == "loop"
IdeasFailure == "raised"

\* The clients run_pipeline constructs, in this order.
Clients == {"ClaudeClient", "VideoGenerator", "SheetsLogger", "YouTubeUploader"}

\* except Exception as e: print("Failed to initialize clients"); return
\* (faulty variant: the exception is re-raised)
ClientsFailureRaises == "raised"
ClientsFailure == "returned"

\* "Initialize all clients": any constructor raising makes run_pipeline return.
InitClients ==
  /\ UNCHANGED cancel
  /\ pc = "init"
  /\ \E failing \in Clients \cup {"none"} :
       pc' = IF failing = "none" THEN "gen_ideas" ELSE ClientsFailure
  /\ UNCHANGED <<files, pipeVars, genVars>>

\* STEP 1: claude.generate_ideas; an exception reaches the outer except, which
\* re-raises.
GenerateIdeas ==
  /\ UNCHANGED cancel
  /\ pc = "gen_ideas"
  /\ \/ /\ pc' = IdeasFailure
        /\ UNCHANGED pipeVars
     \/ \E b \in Batches :
          /\ ideas' = b
          /\ stage' = [j \in 1..Len(b) |-> "Pending"]
          /\ removals' = [j \in 1..Len(b) |-> 0]
          /\ uploads' = [j \in 1..Len(b) |-> 0]
          /\ errorLogged' = [j \in 1..Len(b) |-> "none"]
          /\ i' = LoopStart
          /\ pc' = "log_ideas"
          /\ UNCHANGED <<stats, ledgerCalls, ledgerRows, exc>>
  /\ UNCHANGED <<files, genVars>>

\* "Log all ideas": print(idea['title']) then sheets.log_idea(idea).
LogIdea ==
  /\ UNCHANGED cancel
  /\ pc = "log_ideas"
  /\ ~LoopDone(i, Len(ideas))
  /\ IF ~HasAll(ideas[i], ListingKeys)
       THEN /\ pc' = "raised"
            /\ UNCHANGED pipeVars
       ELSE /\ \E sheetOk \in BOOLEAN :
                 LedgerCall("Ideas_Log", i, sheetOk /\ HasAll(ideas[i], LogIdeaKeys))
            /\ i' = NextItem(i)
            /\ UNCHANGED <<pc, ideas, stats, stage, removals, uploads, exc, errorLogged>>
  /\ UNCHANGED <<files, genVars>>

LogIdeasDone ==
  /\ UNCHANGED cancel
  /\ pc = "log_ideas"
  /\ LoopDone(i, Len(ideas))
  /\ pc' = "loop"
  /\ i' = LoopStart
  /\ UNCHANGED <<files, ideas, stats, stage, removals, uploads, ledgerCalls, ledgerRows,
                 exc, errorLogged, genVars>>

\* Top of "STEP 2: Process each idea": stats["total"] += 1 and the prints that
\* read the idea before the item's try block.
ItemStart ==
  /\ UNCHANGED cancel
  /\ pc = "loop"
  /\ ~LoopDone(i, Len(ideas))
  /\ stats' = CountTotal(stats)
  /\ pc' = IF HasAll(ideas[i], HeaderKeys) THEN "prompt" ELSE "raised"
  /\ UNCHANGED <<files, ideas, i, stage, removals, uploads, ledgerCalls, ledgerRows,
                 exc, errorLogged, genVars>>

\* claude.generate_video_prompt(idea), then the call of video_gen.generate.
DerivePrompt ==
  /\ UNCHANGED cancel
  /\ pc = "prompt"
  /\ \E apiOk \in BOOLEAN :
       IF apiOk /\ HasAll(ideas[i], PromptKeys)
         THEN /\ stage' = [stage EXCEPT ![i] = "PromptReady"]
              /\ pc' = "generate"
              /\ EnterGenerate(MAX_RETRIES)
              /\ UNCHANGED exc
         ELSE /\ pc' = "except"
              /\ exc' = "prompt derivation failed"
              /\ UNCHANGED <<stage, genVars>>
  /\ UNCHANGED <<files, ideas, i, stats, removals, uploads, ledgerCalls, ledgerRows,
                 errorLogged>>

\* video_path = video_gen.generate(...); if not video_path: raise Exception(...)
AfterGenerate ==
  /\ UNCHANGED cancel
  /\ pc = "gen_done"
  /\ IF HasArtifact(genResult)
       THEN /\ stage' = [stage EXCEPT ![i] = "ArtifactReady"]
            /\ pc' = "upload"
            /\ UNCHANGED exc
       ELSE /\ pc' = "except"
            /\ exc' = GenerationFailedMessage(lastOutcome)
            /\ UNCHANGED stage
  /\ LeaveGenerate
  /\ UNCHANGED <<files, ideas, i, stats, removals, uploads, ledgerCalls, ledgerRows,
                 errorLogged>>

\* youtube.upload(video_path, idea)
Upload ==
  /\ UNCHANGED cancel
  /\ pc = "upload"
  /\ uploads' = [uploads EXCEPT ![i] = @ + 1]
  /\ \E apiOk \in BOOLEAN :
       IF apiOk /\ HasAll(ideas[i], UploadKeys)
         THEN /\ stage' = [stage EXCEPT ![i] = "Published"]
              /\ pc' = "log_video"
              /\ UNCHANGED exc
         ELSE /\ pc' = "except"
              /\ exc' = "upload failed"
              /\ UNCHANGED stage
  /\ UNCHANGED <<files, ideas, i, stats, removals, ledgerCalls, ledgerRows, errorLogged,
                 genVars>>

\* sheets.log_video(idea, video_id, video_url)
LogVideo ==
  /\ UNCHANGED cancel
  /\ pc = "log_video"
  /\ \E sheetOk \in BOOLEAN :
       /\ LedgerCall("Videos_Log", i, sheetOk /\ HasAll(ideas[i], LogVideoKeys))
       /\ pc' = AfterLogVideo(sheetOk /\ HasAll(ideas[i], LogVideoKeys))
  /\ UNCHANGED <<files, ideas, i, stats, stage, removals, uploads, exc, errorLogged,
                 genVars>>

\* "Cleanup": os.remove(video_path) when the file exists, then
\* stats["successful"] += 1 and the next item; os.remove raising reaches the
\* item's except clause.
Cleanup ==
  /\ UNCHANGED cancel
  /\ pc = "cleanup"
  /\ \E removeOk \in BOOLEAN :
       IF i \in files /\ ~removeOk
         THEN /\ pc' = "except"
              /\ exc' = "remove failed"
              /\ UNCHANGED <<files, removals, stats, i>>
         ELSE /\ files' = files \ {i}
              /\ removals' = IF i \in files THEN [removals EXCEPT ![i] = @ + 1] ELSE removals
              /\ stats' = CountSuccessful(stats)
              /\ i' = NextItem(i)
              /\ pc' = "loop"
              /\ UNCHANGED exc
  /\ UNCHANGED <<ideas, stage, uploads, ledgerCalls, ledgerRows, errorLogged, genVars>>

\* except Exception as e: stats["failed"] += 1; sheets.log_error(...); continue
HandleFailure ==
  /\ UNCHANGED cancel
  /\ pc = "except"
  /\ stats' = CountFailed(stats)
  /\ stage' = [stage EXCEPT ![i] = "Failed"]
  /\ \E sheetOk \in BOOLEAN : LedgerCall("Errors_Log", i, sheetOk)
  /\ i' = NextItem(i)
  /\ errorLogged' = [errorLogged EXCEPT ![i] = exc]
  /\ exc' = "none"
  /\ pc' = AfterFailure
  /\ UNCHANGED <<files, ideas, removals, uploads, genVars>>

\* The for loop has no idea left.
LoopExit ==
  /\ UNCHANGED cancel
  /\ pc = "loop"
  /\ LoopDone(i, Len(ideas))
  /\ pc' = "summary"
  /\ UNCHANGED <<files, pipeVars, genVars>>

\* (faulty variant: the summary divides by stats["total"])
SummaryDividesByTotal ==
  /\ UNCHANGED cancel
  /\ pc = "summary"
  /\ pc' = IF stats.total = 0 THEN "raised" ELSE "done"
  /\ UNCHANGED <<files, pipeVars, genVars>>

\* "Final summary": the PIPELINE SUMMARY prints, then run_pipeline returns.
Summary ==
  /\ UNCHANGED cancel
  /\ pc = "summary"
  /\ pc' = "done"
  /\ UNCHANGED <<files, pipeVars, genVars>>

\* ------------------------------------------------------------ specifications
Init ==
  /\ pc = "init"
  /\ ideas = <<>>
  /\ i = 0
  /\ stats = [total |-> 0, successful |-> 0, failed |-> 0]
  /\ stage = <<>>
  /\ files = {}
  /\ removals = <<>>
  /\ uploads = <<>>
  /\ ledgerCalls = [s \in Sheets |-> <<>>]
  /\ ledgerRows = [s \in Sheets |-> {}]
  /\ max_retries = MAX_RETRIES
  /\ retry_count = 0
  /\ calls = 0
  /\ sleeps = 0
  /\ lastWait = 0
  /\ lastOutcome = "none"
  /\ n503 = 0
  /\ genResult = "none"
  /\ exc = "none"
  /\ errorLogged = <<>>
  /\ cancel = NoCancel

Next ==
  \/ InitClients
  \/ GenerateIdeas
  \/ LogIdea
  \/ LogIdeasDone
  \/ ItemStart
  \/ DerivePrompt
  \/ GenerateAttempt
  \/ GenerateExhausted
  \/ AfterGenerate
  \/ Upload
  \/ LogVideo
  \/ Cleanup
  \/ HandleFailure
  \/ LoopExit
  \/ Summary

Spec == Init /\ [][Next]_vars

\* The environment signals cancellation while the run is at the top of the
\* item loop or at the top of a retry iteration; the signal remembers where the
\* run was. No statement of run_pipeline or generate reads it.
Cancel ==
  /\ ~cancel.raised
  /\ pc \in {"loop", "generate"}
  /\ cancel' = [raised |-> TRUE, at |-> pc, item |-> i, calls |-> calls]
  /\ UNCHANGED <<pc, files, pipeVars, genVars>>

NextCancel ==
  \/ Next
  \/ Cancel

SpecCancel == Init /\ [][NextCancel]_vars

\* generate(prompt, max_retries) called on its own, for every max_retries up to
\* MaxAttempts.
InitGen ==
  /\ pc = "generate"
  /\ ideas = <<>>
  /\ i = 0
  /\ stats = [total |-> 0, successful |-> 0, failed |-> 0]
  /\ stage = <<>>
  /\ files = {}
  /\ removals = <<>>
  /\ uploads = <<>>
  /\ ledgerCalls = [s \in Sheets |-> <<>>]
  /\ ledgerRows = [s \in Sheets |-> {}]
  /\ max_retries \in 0..MaxAttempts
  /\ retry_count = 0
  /\ calls = 0
  /\ sleeps = 0
  /\ lastWait = 0
  /\ lastOutcome = "none"
  /\ n503 = 0
  /\ genResult = "none"
  /\ exc = "none"
  /\ errorLogged = <<>>
  /\ cancel = NoCancel

NextGen ==
  \/ GenerateAttempt
  \/ GenerateExhausted

SpecGen == InitGen /\ [][NextGen]_vars

\* ------------------------------------------------------------ properties
Terminal == {"Published", "Failed"}
InFlight == {"PromptReady", "ArtifactReady"}
ItemsIn(stages) == {j \in Items : stage[j] \in stages}

\* C1 - Failure isolation: when an item fails at a stage (prompt derivation,
\* generation exhausted, publishing), the except clause moves that item alone to
\* Failed and the loop goes on with the next item; the loop only ends once every
\* item of the batch has been attempted.
FailureIsolation ==
  /\ [][pc = "except" =>
          /\ pc' = "loop"
          /\ i' = i + 1
          /\ ideas' = ideas
          /\ stage' = [stage EXCEPT ![i] = "Failed"]]_vars
  /\ [](pc \in {"summary", "done"} => \A j \in Items : stage[j] # "Pending")

\* Item 1 failed at publishing and item 2 was still published.
FailureIsolationWitness ==
  /\ pc = "done"
  /\ Len(ideas) = 2
  /\ stage[1] = "Failed"
  /\ uploads[1] = 1
  /\ stage[2] = "Published"

\* C2 - Stats conservation: when the run has finished (the summary was
\* reached), successful + failed = total = number of ideas of the batch.
StatsConservation ==
  pc = "done" =>
    /\ stats.successful + stats.failed = stats.total
    /\ stats.total = Len(ideas)

\* A finished run of two ideas with one success and one failure.
StatsConservationWitness ==
  /\ pc = "done"
  /\ stats = [total |-> 2, successful |-> 1, failed |-> 1]

\* C3 - Bounded retries: generate never makes more than max_retries remote
\* calls, it returns a path only after a 200, and when it returns None it has
\* made exactly max_retries calls.
BoundedRetries ==
  /\ calls <= max_retries
  /\ genResult = "path" => lastOutcome = "ready"
  /\ (pc = "gen_done" /\ genResult = "None") => calls = max_retries

\* generate(max_retries = 5) gave up after 5 calls, all answered 503.
BoundedRetriesWitness ==
  /\ pc = "gen_done"
  /\ genResult = "None"
  /\ max_retries = 5
  /\ calls = 5
  /\ n503 = 5

\* C4 - Linear cold-start backoff: as long as every answer was 503, the k-th
\* answer is followed by the k-th wait, of RETRY_WAIT * k seconds; a 200 after k
\* such answers ends generate after k + 1 calls and k waits.
LinearBackoff ==
  n503 = retry_count =>
    /\ sleeps = retry_count
    /\ sleeps > 0 => lastWait = RETRY_WAIT * sleeps
    /\ lastOutcome = "notready" => calls = retry_count
    /\ genResult = "path" => (calls = retry_count + 1 /\ sleeps = calls - 1)

\* Three 503 answers, waits of 20, 40 and 60 seconds, then a 200.
LinearBackoffWitness ==
  /\ pc = "gen_done"
  /\ genResult = "path"
  /\ n503 = 3
  /\ retry_count = 3
  /\ calls = 4
  /\ sleeps = 3
  /\ lastWait = 60

\* C5 - Artifact release: once the run has finished no video file of the batch
\* is left, and every item that reached the upload had its file removed exactly
\* once.
ArtifactReleased ==
  pc = "done" =>
    /\ files = {}
    /\ \A j \in Items : uploads[j] > 0 => removals[j] = 1

\* C6 - Terminal stages: when the run has finished every item is Published or
\* Failed, the Published ones are the ones counted successful and the Failed
\* ones the ones counted failed.
TerminalStages ==
  pc = "done" =>
    /\ \A j \in Items : stage[j] \in Terminal
    /\ stats.successful = Cardinality(ItemsIn({"Published"}))
    /\ stats.failed = Cardinality(ItemsIn({"Failed"}))

\* A finished run whose first item is Published and whose second is Failed.
TerminalStagesWitness ==
  /\ pc = "done"
  /\ Len(ideas) = 2
  /\ stage[1] = "Published"
  /\ stage[2] = "Failed"

\* C7 - Invalid idea isolated: once the batch exists the run never ends by an
\* exception, and in a finished run every idea lacking a key is Failed.
InvalidIdeaIsolated ==
  /\ pc = "raised" => ideas = <<>>
  /\ pc = "done" => \A j \in Items : ideas[j] # Fields => stage[j] = "Failed"

\* C8 - Flat wait for errors and timeouts: a non-200, non-503 answer and a call
\* that raised both add exactly one to retry_count, leave the 503 count alone
\* and, when an attempt remains, are followed by a wait of RETRY_WAIT.
FlatWaitOnError ==
  [][(calls' = calls + 1 /\ lastOutcome' \in {"failed", "raised"}) =>
       /\ retry_count' = retry_count + 1
       /\ n503' = n503
       /\ retry_count' < max_retries => (sleeps' = sleeps + 1 /\ lastWait' = RETRY_WAIT)]_vars

\* The third attempt timed out, attempts remain, the wait was RETRY_WAIT.
FlatWaitOnErrorWitness ==
  /\ pc = "generate"
  /\ lastOutcome = "raised"
  /\ retry_count = 3
  /\ retry_count < max_retries
  /\ sleeps = 3
  /\ lastWait = RETRY_WAIT

\* C9 - No wait after the last attempt: a generate that returns None has slept
\* max_retries - 1 times.
NoWaitAfterLastAttempt ==
  (pc = "gen_done" /\ genResult = "None" /\ max_retries >= 1) => sleeps = max_retries - 1

\* C10 - Strict sequential order: at most one item is in flight, an item is
\* started only when every earlier item is in a terminal stage, and while an
\* item is processed every later item is still Pending.
StrictOrder ==
  /\ Cardinality(ItemsIn(InFlight)) <= 1
  /\ \A j, k \in Items : (j < k /\ stage[k] # "Pending") => stage[j] \in Terminal
  /\ pc \in {"prompt", "generate", "gen_done", "upload", "log_video", "cleanup", "except"} =>
       /\ i \in Items
       /\ \A j \in Items : j > i => stage[j] = "Pending"
       /\ \A j \in Items : j < i => stage[j] \in Terminal

\* Item 2 holds its artifact after item 1 reached a terminal stage.
StrictOrderWitness ==
  /\ Len(ideas) = 2
  /\ stage[1] \in Terminal
  /\ stage[2] = "ArtifactReady"
  /\ pc = "upload"

\* The items a log_* call of the sheet was made for.
Called(sheet) == {ledgerCalls[sheet][n] : n \in 1..Len(ledgerCalls[sheet])}

\* A step in which a log_* call of the sheet was made and appended no row.
LedgerFailure(sheet) ==
  /\ Len(ledgerCalls'[sheet]) = Len(ledgerCalls[sheet]) + 1
  /\ ledgerRows'[sheet] = ledgerRows[sheet]

\* C11 - Ledger failures never escalate: a log_idea, log_video or log_error
\* call that appends no row leaves the run where a successful call leaves it:
\* log_idea goes on with the next idea, log_video goes on to the cleanup with
\* stats and stages untouched, log_error leaves the item Failed and counted
\* once, and the loop continues; none of them ends the run.
LedgerFailureSwallowed ==
  /\ [][LedgerFailure("Ideas_Log") =>
          /\ pc' = "log_ideas"
          /\ i' = i + 1
          /\ stats' = stats
          /\ stage' = stage]_vars
  /\ [][LedgerFailure("Videos_Log") =>
          /\ pc' = "cleanup"
          /\ i' = i
          /\ stats' = stats
          /\ stage' = stage]_vars
  /\ [][LedgerFailure("Errors_Log") =>
          /\ pc' = "loop"
          /\ i' = i + 1
          /\ stats' = [stats EXCEPT !.failed = @ + 1]
          /\ stage' = [stage EXCEPT ![i] = "Failed"]]_vars

\* No ledger call of the run appended a row, and the run still finished with
\* item 1 published and counted successful and item 2 failed.
LedgerFailureSwallowedWitness ==
  /\ pc = "done"
  /\ Len(ideas) = 2
  /\ Called("Ideas_Log") = {1, 2}
  /\ Called("Videos_Log") = {1}
  /\ Called("Errors_Log") = {2}
  /\ \A s \in Sheets : ledgerRows[s] = {}
  /\ stage[1] = "Published"
  /\ stage[2] = "Failed"
  /\ stats = [total |-> 2, successful |-> 1, failed |-> 1]

\* C12 - Cooperative cancellation: a signal raised between item 1 and item 2
\* (at the top of the item loop) leaves total at 1 and item 2 unattempted; a
\* signal raised at the top of a retry iteration is followed by no further
\* remote call of that generate.
CancellationHonoured ==
  /\ (cancel.raised /\ cancel.at = "loop" /\ cancel.item = 2 /\ Len(ideas) >= 2) =>
       /\ stats.total = 1
       /\ stats.successful + stats.failed = 1
       /\ stage[2] = "Pending"
       /\ uploads[2] = 0
       /\ calls = 0
  /\ (cancel.raised /\ cancel.at = "generate" /\ cancel.item = i /\ pc \in {"generate", "gen_done"}) =>
       calls = cancel.calls

NoStats == [total |-> 0, successful |-> 0, failed |-> 0]
NoLedgerCall == \A s \in Sheets : ledgerCalls[s] = <<>>

\* C13 - Idea-generation failure is fatal: from the call of generate_ideas the
\* run either aborts with nothing changed or goes on to log a batch; an aborted
\* run stays aborted, and a run aborted without a batch has processed nothing:
\* no counter moved, no ledger call, no remote call, no upload, no file.
IdeaGenerationFatal ==
  /\ [][pc = "gen_ideas" =>
          \/ pc' = "raised" /\ UNCHANGED <<files, pipeVars, genVars>>
          \/ pc' = "log_ideas"]_vars
  /\ [][pc = "raised" => pc' = "raised"]_vars
  /\ []((pc = "raised" /\ ideas = <<>>) =>
          /\ stats = NoStats
          /\ NoLedgerCall
          /\ files = {}
          /\ uploads = <<>>
          /\ calls = 0
          /\ stage = <<>>)

\* generate_ideas raised: the run is aborted and nothing was counted.
IdeaGenerationFatalWitness ==
  /\ pc = "raised"
  /\ ideas = <<>>
  /\ stats = NoStats
  /\ NoLedgerCall

\* C14 - Empty batch: with no idea the run goes from the logging loop through
\* the item loop to the summary and ends normally, with no counter moved, no
\* ledger call, no remote call and no file.
EmptyBatch ==
  /\ [][(ideas = <<>> /\ pc \in {"log_ideas", "loop", "summary"}) =>
          /\ pc' \in {"loop", "summary", "done"}
          /\ UNCHANGED <<files, pipeVars, genVars>>]_vars
  /\ []((ideas = <<>> /\ pc \in {"log_ideas", "loop", "summary", "done"}) =>
          /\ stats = NoStats
          /\ NoLedgerCall
          /\ files = {}
          /\ calls = 0)

\* The run of an empty batch has finished.
EmptyBatchWitness ==
  /\ pc = "done"
  /\ ideas = <<>>
  /\ stats = NoStats

\* C15 - The run ends with the summary: no run ends by an exception instead of
\* reaching the final summary.
RunEndsWithSummary == pc # "raised"

\* The positions of run_pipeline between the start of an item and its
\* resolution.
ItemPcs == {"prompt", "generate", "gen_done", "upload", "log_video", "cleanup", "except"}

\* An item was started and is not resolved: the run is inside the item, or was
\* aborted by the prints at the head of the item.
ItemOpen == pc \in ItemPcs \/ (pc = "raised" /\ stats.total > 0)

\* C16 as stated - total == successful + failed in every reachable state.
StatsOnlyOnResolution == stats.total = stats.successful + stats.failed

\* C16 as amended - successful and failed change only when the item is resolved
\* (exactly one of them, by one, with the item in a terminal stage and total
\* untouched); total is incremented when the item starts, while it is Pending;
\* so total == successful + failed + 1 while an item is open and
\* total == successful + failed otherwise.
StatsTiming ==
  /\ [](stats.total = stats.successful + stats.failed + (IF ItemOpen THEN 1 ELSE 0))
  /\ [][(stats'.successful # stats.successful \/ stats'.failed # stats.failed) =>
          /\ pc \in ItemPcs
          /\ pc' = "loop"
          /\ stage'[i] \in Terminal
          /\ stats'.total = stats.total
          /\ stats'.successful + stats'.failed = stats.successful + stats.failed + 1
          /\ stats'.successful >= stats.successful
          /\ stats'.failed >= stats.failed]_vars
  /\ [][stats'.total # stats.total =>
          /\ pc = "loop"
          /\ stage[i] = "Pending"
          /\ stats' = [stats EXCEPT !.total = @ + 1]]_vars

\* Item 2 is in its retry loop: total is 2 while one item is resolved.
StatsTimingWitness ==
  /\ pc = "generate"
  /\ i = 2
  /\ stats.total = 2
  /\ stats.successful + stats.failed = 1

\* C17 - Single shared retry budget: every attempt that did not return the
\* video, 503 or not, is counted by retry_count, so the calls never exceed
\* max_retries; the wait after a 503 is RETRY_WAIT times that shared count.
SharedRetryBudget ==
  /\ calls <= max_retries
  /\ n503 <= retry_count
  /\ calls = retry_count + (IF lastOutcome = "ready" THEN 1 ELSE 0)
  /\ (lastOutcome = "notready" /\ genResult # "path") => lastWait = RETRY_WAIT * retry_count

\* Two failed attempts, then a 503: the wait is 3 * RETRY_WAIT though only one
\* 503 was received.
SharedRetryBudgetWitness ==
  /\ pc = "generate"
  /\ lastOutcome = "notready"
  /\ n503 = 1
  /\ retry_count = 3
  /\ lastWait = 60

\* The reason the claim expects of an exhausted generate: the reason of the
\* last failed attempt, or that the job was still not ready.
ExpectedReason(outcome) ==
  IF outcome = "notready"
    THEN "exhausted retries while job not ready"
    ELSE RemoteReason(outcome)

\* C18 - Exhaustion keeps the failure reason: when generate returns None, the
\* exception raised for the item carries the reason of the last attempt, and
\* log_error is given the text of that exception.
ExhaustionKeepsReason ==
  /\ [][(pc = "gen_done" /\ genResult = "None" /\ lastOutcome # "none") =>
          exc' = ExpectedReason(lastOutcome)]_vars
  /\ [][pc = "except" => errorLogged'[i] = exc]_vars

\* C19 - Outcome records are exclusive: no item has both a log_video and a
\* log_error call; each call is made at most once per item; in a finished run
\* every item has exactly one of the two, and the items with a log_video call
\* are the ones counted successful.
OutcomeRecordsExclusive ==
  /\ Called("Videos_Log") \cap Called("Errors_Log") = {}
  /\ Len(ledgerCalls["Videos_Log"]) = Cardinality(Called("Videos_Log"))
  /\ Len(ledgerCalls["Errors_Log"]) = Cardinality(Called("Errors_Log"))
  /\ pc = "done" =>
       /\ Called("Videos_Log") \cup Called("Errors_Log") = Items
       /\ stats.successful = Cardinality(Called("Videos_Log"))
       /\ stats.failed = Cardinality(Called("Errors_Log"))

\* C20 - Publish is gated and never retried: upload is called at most once per
\* item, only for the current item, in stage ArtifactReady, with its video file
\* on disk; an item whose prompt derivation or generation failed has no upload.
PublishGated ==
  /\ [](\A j \in Items :
          /\ uploads[j] <= 1
          /\ uploads[j] = 1 => (j \in files \/ removals[j] = 1)
          /\ errorLogged[j] \in {"prompt derivation failed", "Video generation returned None"} =>
               uploads[j] = 0)
  /\ [][(\E j \in Items : uploads'[j] # uploads[j]) =>
          /\ pc = "upload"
          /\ stage[i] = "ArtifactReady"
          /\ i \in files
          /\ uploads' = [uploads EXCEPT ![i] = 1]]_vars

\* Item 1 exhausted its retries and was never uploaded; item 2's upload failed
\* after one call.
PublishGatedWitness ==
  /\ pc = "done"
  /\ Len(ideas) = 2
  /\ errorLogged[1] = "Video generation returned None"
  /\ uploads[1] = 0
  /\ errorLogged[2] = "upload failed"
  /\ uploads[2] = 1

\* C21 - Client initialisation failure stops the run quietly: from the
\* construction of the clients the run either returns with nothing changed or
\* goes on to generate ideas; it never ends by an exception there (only a later
\* step, such as a failure of generate_ideas, is re-raised); a returned run
\* stays returned and has generated no idea, made no ledger call, no remote call
\* and no upload, and counted nothing.
ClientInitFailureQuiet ==
  /\ [][pc = "init" =>
          \/ pc' = "returned" /\ UNCHANGED <<files, pipeVars, genVars>>
          \/ pc' = "gen_ideas" /\ UNCHANGED <<files, pipeVars, genVars>>]_vars
  /\ [][pc' = "raised" => pc \in {"gen_ideas", "log_ideas", "loop", "raised"}]_vars
  /\ [][pc = "returned" => pc' = "returned"]_vars
  /\ [](pc = "returned" =>
          /\ ideas = <<>>
          /\ stats = NoStats
          /\ NoLedgerCall
          /\ files = {}
          /\ uploads = <<>>
          /\ stage = <<>>
          /\ calls = 0)

\* A client constructor raised: run_pipeline has returned with nothing done.
ClientInitFailureQuietWitness ==
  /\ pc = "returned"
  /\ ideas = <<>>
  /\ stats = NoStats
  /\ NoLedgerCall

====
